---- MODULE Spec2Model ----
(***************************************************************************)
(* Model of subtitle_db_manager: the library indexer (load_subtitles over  *)
(* db_manager / file_walker / subtitle_parser) and the search-and-assemble *)
(* engine (query_subtitles and the three artifact writers).                *)
(*                                                                         *)
(* Times are integers in milliseconds.  Strings (file paths, cue texts,    *)
(* queries) are sequences of character codes, so that substring search,    *)
(* the comma test and the path ordering are computed, not assumed.         *)
(* One command-line invocation runs at a time: pc = "idle" between         *)
(* invocations, "load" inside the loop of load_subtitles, "done" when the  *)
(* invocation returned normally and "crashed" when an exception escaped.   *)
(***************************************************************************)
EXTENDS Integers, Sequences, FiniteSets, TLC

\* ---------------------------------------------------------------- bounds
\* Number of times the media files of the directory are modified, in all.
MaxModify == 1
\* Largest value of --before / --after that is explored.
MaxCtx == 2

\* ------------------------------------------------------ program constants
\* The delay of write_vtt_file, 0.5 s, in milliseconds.
Gap == 500
\* The character ',' tested by query_subtitles.
Comma == 44

\* ------------------------------------------------------------ the inputs
\* Media files the scanned directory may hold: "a", "a," and "b".
Paths == {<<97>>, <<97, 44>>, <<98>>}

\* Queries given to --query: "b", "C" and "z".
Queries == {<<98>>, <<67>>, <<122>>}

\* Extension of the subtitle file paired with a media file.
SubtitleExt(p) == IF p = <<98>> THEN "vtt" ELSE "srt"

\* Cues a decoder reads from the subtitle file paired with media file p.
\*   "a"  : (0-2,"a") (2-4,"b") (4-6,"c")
\*   "a," : (1-2,"b") (3-4,"cb")
\*   "b"  : (5-3,"b") (1-2,"B c") (7-7.5,"x")   (malformed: out of order)
FileCues(p) ==
    IF p = <<97>> THEN
        << [start_time |-> 0,    end_time |-> 2000, text |-> <<97>>],
           [start_time |-> 2000, end_time |-> 4000, text |-> <<98>>],
           [start_time |-> 4000, end_time |-> 6000, text |-> <<99>>] >>
    ELSE IF p = <<98>> THEN
        << [start_time |-> 5000, end_time |-> 3000, text |-> <<98>>],
           [start_time |-> 1000, end_time |-> 2000, text |-> <<66, 32, 99>>],
           [start_time |-> 7000, end_time |-> 7500, text |-> <<120>>] >>
    ELSE
        << [start_time |-> 1000, end_time |-> 2000, text |-> <<98>>],
           [start_time |-> 3000, end_time |-> 4000, text |-> <<99, 98>>] >>

VARIABLES
    fs,              \* the directory: per media path, presence, mtime, decodable
    tables,          \* the store file exists and holds both tables
    media_files,     \* table media_files; the index is the row id
    subtitles,       \* table subtitles; the index is the row id
    pc,              \* position of the running invocation
    run,             \* the invocation: operation, reload flag, clean directory
    file_pairs,      \* load_subtitles: pairs still to process
    processed_count, \* load_subtitles: processed_count
    begin,           \* the two tables as they were when the invocation began
    dirty,           \* the directory changed, or a scan began, since the last
                     \* scan that ran to its end
    open_conns,      \* store connections opened and not closed
    notice,          \* the "No results found" line was printed
    results,         \* query_subtitles: the fetched matches
    windows,         \* query_subtitles: per emitted match, its window
    edl_entries,     \* query_subtitles: edl_entries
    text_entries,    \* query_subtitles: text_entries
    edl_file,        \* playlist artifact
    txt_file,        \* transcript artifact
    vtt_file         \* caption artifact

vars == << fs, tables, media_files, subtitles, pc, run, file_pairs,
           processed_count, begin, dirty, open_conns, notice, results,
           windows, edl_entries, text_entries, edl_file, txt_file, vtt_file >>

store == << tables, media_files, subtitles >>
outputs == << notice, results, windows, edl_entries, text_entries,
             edl_file, txt_file, vtt_file >>

\* --------------------------------------------------------------- helpers
Min(a, b) == IF a < b THEN a ELSE b
Max(a, b) == IF a > b THEN a ELSE b

\* Ascending sequence of a finite set of integers.
RECURSIVE SetToSeq(_)
SetToSeq(S) ==
    IF S = {} THEN <<>>
    ELSE LET m == CHOOSE x \in S : \A y \in S : x <= y
         IN  <<m>> \o SetToSeq(S \ {m})

Reverse(s) == [i \in 1..Len(s) |-> s[Len(s) + 1 - i]]

\* The last n elements of s, and the first n.
LastN(s, n) == SubSeq(s, Max(1, Len(s) - n + 1), Len(s))
FirstN(s, n) == SubSeq(s, 1, Min(n, Len(s)))

\* All orders in which a set can be enumerated.
Perms(S) ==
    { s \in [1..Cardinality(S) -> S] : \A i, j \in 1..Cardinality(S) :
                                           i # j => s[i] # s[j] }

\* str(n) for a non-negative integer: its decimal digits.
RECURSIVE Str(_)
Str(n) == IF n < 10 THEN <<48 + n>> ELSE Str(n \div 10) \o <<48 + (n % 10)>>

NoFile == [written |-> FALSE, lines |-> <<>>]
NoRun == [op |-> "none", reload |-> FALSE, clean |-> FALSE,
          query_str |-> <<>>, before_lines |-> 0, after_lines |-> 0]
Absent == [present |-> FALSE, mtime |-> 0, ok |-> TRUE]

\* ------------------------------------------------------- file_walker.py
\* The media files that have a subtitle file of the same base name.
find_media_and_subtitles(dir) ==
    { [media_path |-> p, subtitle_path |-> [base |-> p, ext |-> SubtitleExt(p)]]
        : p \in { q \in Paths : dir[q].present } }

\* ---------------------------------------------------- subtitle_parser.py
\* parse_srt: pysrt.open raises on a file it cannot decode; no handler.
parse_srt(dir, sp) ==
    IF dir[sp.base].ok THEN [raised |-> FALSE, subs |-> FileCues(sp.base)]
    ELSE [raised |-> TRUE, subs |-> <<>>]

\* parse_vtt: any exception is caught and an empty list returned.
parse_vtt(dir, sp) ==
    IF dir[sp.base].ok THEN [raised |-> FALSE, subs |-> FileCues(sp.base)]
    ELSE [raised |-> FALSE, subs |-> <<>>]

parse_subtitle_file(dir, sp) ==
    IF sp.ext = "srt" THEN parse_srt(dir, sp)
    ELSE IF sp.ext = "vtt" THEN parse_vtt(dir, sp)
    ELSE [raised |-> FALSE, subs |-> <<>>]

\* --------------------------------------------------------- db_manager.py
\* get_media_id: the id of the row with this path, 0 for None.
get_media_id(mf, file_path) ==
    IF \E i \in 1..Len(mf) : mf[i].file_path = file_path
    THEN CHOOSE i \in 1..Len(mf) : mf[i].file_path = file_path
    ELSE 0

\* insert_media_file: file_path is UNIQUE; IntegrityError gives None (0).
insert_media_file(mf, file_path, phash, modified_time) ==
    IF \E i \in 1..Len(mf) : mf[i].file_path = file_path
    THEN [table |-> mf, id |-> 0]
    ELSE [table |-> Append(mf, [file_path |-> file_path, phash |-> phash,
                                modified_time |-> modified_time]),
          id |-> Len(mf) + 1]

\* insert_subtitles: one row per cue, in list order, under media_id.
insert_subtitles(st, media_id, subtitles_list) ==
    st \o [i \in 1..Len(subtitles_list) |->
              [media_id |-> media_id,
               start_time |-> subtitles_list[i].start_time,
               end_time |-> subtitles_list[i].end_time,
               text |-> subtitles_list[i].text]]

\* get_last_modified_time: MAX(modified_time), 0 when there is none.
RECURSIVE get_last_modified_time(_)
get_last_modified_time(mf) ==
    IF mf = <<>> THEN 0
    ELSE Max(Head(mf).modified_time, get_last_modified_time(Tail(mf)))

\* A connection left without close(): the runtime may or may not have
\* finalised it by the time the operation ends.
Unclosed(n) == {n, n + 1}

\* ---------------------------------------------------------------- Init
Init ==
    /\ fs = [p \in Paths |-> Absent]
    /\ tables = FALSE
    /\ media_files = <<>>
    /\ subtitles = <<>>
    /\ pc = "idle"
    /\ run = NoRun
    /\ file_pairs = <<>>
    /\ processed_count = 0
    /\ begin = [media_files |-> <<>>, subtitles |-> <<>>]
    /\ dirty = TRUE
    /\ open_conns = 0
    /\ notice = FALSE
    /\ results = <<>>
    /\ windows = <<>>
    /\ edl_entries = <<>>
    /\ text_entries = <<>>
    /\ edl_file = NoFile
    /\ txt_file = NoFile
    /\ vtt_file = NoFile

\* ------------------------------------------------------ the environment
\* A media file and its subtitle file appear in the directory.
AddFile(p, ok) ==
    /\ pc = "idle"
    /\ ~fs[p].present
    /\ fs' = [fs EXCEPT ![p] = [present |-> TRUE, mtime |-> 1, ok |-> ok]]
    /\ dirty' = TRUE
    /\ UNCHANGED << store, pc, run, file_pairs, processed_count, begin,
                    open_conns, outputs >>

\* The modifications the files of the directory have had (each file appears
\* with modification time 1 and every modification adds 1).
RECURSIVE Modifications(_, _)
Modifications(dir, P) ==
    IF P = {} THEN 0
    ELSE LET p == CHOOSE q \in P : TRUE
         IN  (IF dir[p].present THEN dir[p].mtime - 1 ELSE 0)
               + Modifications(dir, P \ {p})

\* A media file of the directory is modified.
ModifyFile(p) ==
    /\ pc = "idle"
    /\ fs[p].present
    /\ Modifications(fs, Paths) < MaxModify
    /\ fs' = [fs EXCEPT ![p].mtime = @ + 1]
    /\ dirty' = TRUE
    /\ UNCHANGED << store, pc, run, file_pairs, processed_count, begin,
                    open_conns, outputs >>

\* ------------------------------------------------------- load_subtitles
\* Variant of ResetStore that recreates the store whatever the flag.
ResetStore_always(reload, st) ==
    [tables |-> TRUE, media_files |-> <<>>, subtitles |-> <<>>]

\* Lines 87-91: with reload the store file is removed and created anew.
ResetStore(reload, st) ==
    IF reload THEN [tables |-> TRUE, media_files |-> <<>>, subtitles |-> <<>>]
    ELSE st

\* Lines 85-96: up to the loop.  os.walk yields the files in any order.
LoadBegin(reload, order) ==
    /\ pc = "idle"
    /\ order \in Perms(find_media_and_subtitles(fs))
    /\ LET st == ResetStore(reload, [tables |-> tables,
                                     media_files |-> media_files,
                                     subtitles |-> subtitles])
       IN  /\ tables' = st.tables
           /\ media_files' = st.media_files
           /\ subtitles' = st.subtitles
           /\ begin' = [media_files |-> st.media_files,
                        subtitles |-> st.subtitles]
    /\ file_pairs' = order
    /\ processed_count' = 0
    /\ run' = [NoRun EXCEPT !.op = "load", !.reload = reload, !.clean = ~dirty]
    /\ pc' = "load"
    /\ dirty' = TRUE
    /\ UNCHANGED << fs, open_conns, outputs >>

\* Lines 97-116: one iteration of the loop.
LoadStep ==
    /\ pc = "load"
    /\ file_pairs # <<>>
    /\ LET pair == Head(file_pairs)
           media_path == pair.media_path
           known == IF run.reload THEN 0 ELSE get_media_id(media_files, media_path)
           mod_time == fs[media_path].mtime
           ins == insert_media_file(media_files, media_path, Str(mod_time), mod_time)
           parsed == parse_subtitle_file(fs, pair.subtitle_path)
       IN  IF ~run.reload /\ ~tables THEN
               \* get_media_id: no such table; its connection is not closed
               /\ pc' = "crashed"
               /\ open_conns' \in Unclosed(open_conns)
               /\ UNCHANGED << media_files, subtitles, file_pairs, processed_count >>
           ELSE IF known # 0 THEN
               /\ file_pairs' = Tail(file_pairs)
               /\ UNCHANGED << media_files, subtitles, processed_count, pc, open_conns >>
           ELSE IF ins.id = 0 THEN
               /\ file_pairs' = Tail(file_pairs)
               /\ UNCHANGED << media_files, subtitles, processed_count, pc, open_conns >>
           ELSE IF parsed.raised THEN
               /\ media_files' = ins.table
               /\ pc' = "crashed"
               /\ UNCHANGED << subtitles, file_pairs, processed_count, open_conns >>
           ELSE
               /\ media_files' = ins.table
               /\ subtitles' = insert_subtitles(subtitles, ins.id, parsed.subs)
               /\ processed_count' = processed_count + 1
               /\ file_pairs' = Tail(file_pairs)
               /\ UNCHANGED << pc, open_conns >>
    /\ UNCHANGED << fs, tables, run, begin, dirty, outputs >>

\* Line 118: the loop is over and the count is reported.
LoadEnd ==
    /\ pc = "load"
    /\ file_pairs = <<>>
    /\ pc' = "done"
    /\ dirty' = FALSE
    /\ UNCHANGED << fs, store, run, file_pairs, processed_count, begin,
                    open_conns, outputs >>

\* ------------------------------------------------------ query_subtitles
\* ASCII lower case: LIKE compares ASCII letters without case.
Lower(c) == IF c >= 65 /\ c <= 90 THEN c + 32 ELSE c

\* text LIKE '%query_str%' (the queries hold no LIKE wildcard).
Like(text, query_str) ==
    \E i \in 0..(Len(text) - Len(query_str)) :
        \A j \in 1..Len(query_str) : Lower(text[i + j]) = Lower(query_str[j])

\* Byte order of two strings, as in ORDER BY T1.file_path.
PathLess(a, b) ==
    \E k \in 1..(Min(Len(a), Len(b)) + 1) :
        /\ \A j \in 1..(k - 1) : a[j] = b[j]
        /\ \/ k > Len(a) /\ k <= Len(b)
           \/ k <= Len(a) /\ k <= Len(b) /\ a[k] < b[k]

\* A row of the join of lines 128-134.
JoinRow(mf, st, sid) ==
    [file_path |-> mf[st[sid].media_id].file_path,
     start_time |-> st[sid].start_time,
     end_time |-> st[sid].end_time,
     id |-> sid,
     media_id |-> st[sid].media_id,
     text |-> st[sid].text]

\* ORDER BY T1.file_path, T2.start_time; equal keys come out in row order.
RowLess(r1, r2) ==
    \/ PathLess(r1.file_path, r2.file_path)
    \/ /\ r1.file_path = r2.file_path
       /\ \/ r1.start_time < r2.start_time
          \/ r1.start_time = r2.start_time /\ r1.id < r2.id

RECURSIVE SortRows(_)
SortRows(R) ==
    IF R = {} THEN <<>>
    ELSE LET m == CHOOSE x \in R : \A y \in R \ {x} : RowLess(x, y)
         IN  <<m>> \o SortRows(R \ {m})

\* Lines 126-136: the matches, in order.
FetchMatches(mf, st, query_str) ==
    SortRows({ JoinRow(mf, st, sid) :
                 sid \in { i \in 1..Len(st) :
                             /\ st[i].media_id \in 1..Len(mf)
                             /\ Like(st[i].text, query_str) } })

\* A row of table subtitles as the window queries select it (with its id).
SubRow(st, sid) ==
    [id |-> sid, start_time |-> st[sid].start_time,
     end_time |-> st[sid].end_time, text |-> st[sid].text]

\* Variant of BeforeSubs whose query leaves out "media_id = ?".
BeforeSubs_anymedia(st, media_id, sub_id, before_lines) ==
    IF before_lines > 0 THEN
        LET ids == SetToSeq({ i \in 1..Len(st) : i < sub_id })
            desc == FirstN(Reverse(ids), before_lines)
        IN  [k \in 1..Len(desc) |-> SubRow(st, Reverse(desc)[k])]
    ELSE <<>>

\* Lines 155-165: the before_lines rows before the match, ascending.
BeforeSubs(st, media_id, sub_id, before_lines) ==
    IF before_lines > 0 THEN
        LET ids == SetToSeq({ i \in 1..Len(st) :
                                st[i].media_id = media_id /\ i < sub_id })
            desc == FirstN(Reverse(ids), before_lines)
        IN  [k \in 1..Len(desc) |-> SubRow(st, Reverse(desc)[k])]
    ELSE <<>>

\* Lines 167-177: the after_lines rows after the match, ascending.
AfterSubs(st, media_id, sub_id, after_lines) ==
    IF after_lines > 0 THEN
        LET ids == SetToSeq({ i \in 1..Len(st) :
                                st[i].media_id = media_id /\ i > sub_id })
            asc == FirstN(ids, after_lines)
        IN  [k \in 1..Len(asc) |-> SubRow(st, asc[k])]
    ELSE <<>>

\* Line 151: ',' in file_path.
HasComma(file_path) == \E k \in 1..Len(file_path) : file_path[k] = Comma

\* Variant of Kept without the comma test.
Kept_all(rows) == rows

\* Lines 147-153: the rows the loop does not skip.
Kept(rows) == SelectSeq(rows, LAMBDA r : ~HasComma(r.file_path))

\* The window of one match: the row and its before and after rows.
Window(st, row, before_lines, after_lines) ==
    [row |-> row,
     before_subs |-> BeforeSubs(st, row.media_id, row.id, before_lines),
     after_subs |-> AfterSubs(st, row.media_id, row.id, after_lines)]

\* The cues of a window in the order lines 187-191 append them.
WindowCues(w) ==
    w.before_subs
      \o << [id |-> w.row.id, start_time |-> w.row.start_time,
             end_time |-> w.row.end_time, text |-> w.row.text] >>
      \o w.after_subs

convert_time_to_seconds(start_time, end_time) == end_time - start_time

\* Variant of EdlEntry that starts the clip at the matched cue.
EdlEntry_matchstart(w) ==
    LET edl_end_time == IF w.after_subs # <<>>
                        THEN w.after_subs[Len(w.after_subs)].end_time
                        ELSE w.row.end_time
    IN  [file_path |-> w.row.file_path,
         start_time |-> w.row.start_time,
         length |-> convert_time_to_seconds(w.row.start_time, edl_end_time)]

\* Lines 179-184: the playlist entry of one window.
EdlEntry(w) ==
    LET edl_start_time == IF w.before_subs # <<>> THEN w.before_subs[1].start_time
                          ELSE w.row.start_time
        edl_end_time == IF w.after_subs # <<>>
                        THEN w.after_subs[Len(w.after_subs)].end_time
                        ELSE w.row.end_time
    IN  [file_path |-> w.row.file_path,
         start_time |-> edl_start_time,
         length |-> convert_time_to_seconds(edl_start_time, edl_end_time)]

\* Lines 186-191: the transcript entries of one window.
TextEntriesOf(w) ==
    LET cs == WindowCues(w)
    IN  [k \in 1..Len(cs) |->
           [file_path |-> w.row.file_path, start_time |-> cs[k].start_time,
            end_time |-> cs[k].end_time, text |-> cs[k].text]]

RECURSIVE Flatten(_)
Flatten(ss) == IF ss = <<>> THEN <<>> ELSE Head(ss) \o Flatten(Tail(ss))

\* ----------------------------------------------------------- the writers
\* f"{x:.2f}": a time in ms rounded to hundredths of a second.
Format2f(ms) ==
    LET q == ms \div 10
        r == ms % 10
    IN  IF r > 5 \/ (r = 5 /\ q % 2 = 1) THEN q + 1 ELSE q

\* format_timestamp: HH:MM:SS.mmm by floor division, as Python's // and %.
format_timestamp(ms) ==
    [hours |-> ms \div 3600000,
     minutes |-> (ms % 3600000) \div 60000,
     millis |-> ms % 60000]

EdlHeader == [kind |-> "header", file_path |-> <<>>, start_time |-> 0, length |-> 0]

\* write_edl_file: the header, then one line per entry.
write_edl_file(search_results) ==
    [written |-> TRUE,
     lines |-> <<EdlHeader>> \o
               [k \in 1..Len(search_results) |->
                  [kind |-> "clip",
                   file_path |-> search_results[k].file_path,
                   start_time |-> Format2f(search_results[k].start_time),
                   length |-> Format2f(search_results[k].length)]]]

\* write_text_file: a separator when the path changes, then two lines a cue.
RECURSIVE TextLines(_, _, _)
TextLines(text_results, current_file, first) ==
    IF text_results = <<>> THEN <<>>
    ELSE LET r == Head(text_results)
             sep == IF first \/ r.file_path # current_file
                    THEN << [kind |-> "file", file_path |-> r.file_path,
                             start_time |-> 0, end_time |-> 0, text |-> <<>>] >>
                    ELSE <<>>
         IN  sep \o << [kind |-> "time", file_path |-> <<>>,
                        start_time |-> Format2f(r.start_time),
                        end_time |-> Format2f(r.end_time), text |-> <<>>],
                       [kind |-> "text", file_path |-> <<>>,
                        start_time |-> 0, end_time |-> 0, text |-> r.text] >>
                 \o TextLines(Tail(text_results), r.file_path, FALSE)

write_text_file(text_results) ==
    [written |-> TRUE, lines |-> TextLines(text_results, <<>>, TRUE)]

\* Lines 75-76: where a cue lands on the new timeline.
VttStart(current_time) == current_time + Gap
VttEnd(start_vtt, start_time, end_time) == start_vtt + (end_time - start_time)
\* Line 81: the timeline position after a cue.
VttNext(end_vtt) == end_vtt + Gap

\* Lines 69-81: the loop of write_vtt_file.
RECURSIVE VttLines(_, _)
VttLines(text_results, current_time) ==
    IF text_results = <<>> THEN <<>>
    ELSE LET r == Head(text_results)
             start_vtt == VttStart(current_time)
             end_vtt == VttEnd(start_vtt, r.start_time, r.end_time)
         IN  << [start |-> format_timestamp(start_vtt),
                 end |-> format_timestamp(end_vtt),
                 text |-> r.text] >>
               \o VttLines(Tail(text_results), VttNext(end_vtt))

write_vtt_file(text_results) ==
    [written |-> TRUE, lines |-> VttLines(text_results, 0)]

\* Variant of NoResults that never returns early.
NoResults_never(rows) == FALSE

\* Lines 141-143: the early return for an empty result.
NoResults(rows) == rows = <<>>

\* query_subtitles, whole.
Query(query_str, before_lines, after_lines) ==
    /\ pc = "idle"
    /\ run' = [NoRun EXCEPT !.op = "query", !.query_str = query_str,
                            !.before_lines = before_lines,
                            !.after_lines = after_lines]
    /\ IF ~tables THEN
           \* cursor.execute: no such table; conn.close() is not reached
           /\ pc' = "crashed"
           /\ open_conns' \in Unclosed(open_conns)
           /\ UNCHANGED outputs
       ELSE LET rows == FetchMatches(media_files, subtitles, query_str)
                kept == Kept(rows)
                ws == [k \in 1..Len(kept) |->
                         Window(subtitles, kept[k], before_lines, after_lines)]
                edl == [k \in 1..Len(ws) |-> EdlEntry(ws[k])]
                txt == Flatten([k \in 1..Len(ws) |-> TextEntriesOf(ws[k])])
            IN  /\ results' = rows
                /\ pc' = "done"
                /\ IF NoResults(rows) THEN
                       \* return at line 143: conn.close() is not reached
                       /\ notice' = TRUE
                       /\ open_conns' \in Unclosed(open_conns)
                       /\ UNCHANGED << windows, edl_entries, text_entries,
                                       edl_file, txt_file, vtt_file >>
                   ELSE
                       /\ windows' = ws
                       /\ edl_entries' = edl
                       /\ text_entries' = txt
                       /\ edl_file' = write_edl_file(edl)
                       /\ txt_file' = write_text_file(txt)
                       /\ vtt_file' = write_vtt_file(txt)
                       /\ UNCHANGED << notice, open_conns >>
    /\ UNCHANGED << fs, store, file_pairs, processed_count, begin, dirty >>

\* The process ends: its memory and its connections go with it.
Exit ==
    /\ pc \in {"done", "crashed"}
    /\ pc' = "idle"
    /\ run' = NoRun
    /\ file_pairs' = <<>>
    /\ processed_count' = 0
    /\ begin' = [media_files |-> <<>>, subtitles |-> <<>>]
    /\ open_conns' = 0
    /\ notice' = FALSE
    /\ results' = <<>>
    /\ windows' = <<>>
    /\ edl_entries' = <<>>
    /\ text_entries' = <<>>
    /\ edl_file' = NoFile
    /\ txt_file' = NoFile
    /\ vtt_file' = NoFile
    /\ UNCHANGED << fs, store, dirty >>

Next ==
    \/ \E p \in Paths, ok \in BOOLEAN : AddFile(p, ok)
    \/ \E p \in Paths : ModifyFile(p)
    \/ \E reload \in BOOLEAN, order \in Perms(find_media_and_subtitles(fs)) :
          LoadBegin(reload, order)
    \/ LoadStep
    \/ LoadEnd
    \/ \E q \in Queries, b \in 0..MaxCtx, a \in 0..MaxCtx : Query(q, b, a)
    \/ Exit

Spec == Init /\ [][Next]_vars

\* =================================================================
\* Properties
\* =================================================================
QueryDone == pc = "done" /\ run.op = "query"
LoadDone == pc = "done" /\ run.op = "load"

\* The matches the loop of query_subtitles does not skip.
EmittedMatches ==
    SelectSeq(results, LAMBDA r : \A k \in 1..Len(r.file_path) : r.file_path[k] # 44)

\* The cues of the MediaRecord of a match with a smaller / larger id.
SmallerCues(row) ==
    { i \in 1..Len(subtitles) : subtitles[i].media_id = row.media_id /\ i < row.id }
LargerCues(row) ==
    { i \in 1..Len(subtitles) : subtitles[i].media_id = row.media_id /\ i > row.id }

\* The ids the window of a match has to hold, ascending: the match, the
\* `before` nearest smaller ids and the `after` nearest larger ids.
ExpectedIds(row, before, after) ==
    SetToSeq({row.id}
        \cup { i \in SmallerCues(row) :
                 Cardinality({ j \in SmallerCues(row) : j > i }) < before }
        \cup { i \in LargerCues(row) :
                 Cardinality({ j \in LargerCues(row) : j < i }) < after })

ExpectedEntries(row, before, after) ==
    LET ids == ExpectedIds(row, before, after)
    IN  [k \in 1..Len(ids) |->
           [file_path |-> row.file_path,
            start_time |-> subtitles[ids[k]].start_time,
            end_time |-> subtitles[ids[k]].end_time,
            text |-> subtitles[ids[k]].text]]

\* C1: for every emitted match the window is exactly the matched cue with
\* the min(before, number of smaller cues) cues immediately before it and the
\* min(after, number of larger cues) cues immediately after it, of the same
\* MediaRecord, in ascending id order: contiguous by id within the
\* MediaRecord, at most before + 1 + after cues, fewer only at a boundary.
C1_WindowExact ==
    QueryDone /\ results # <<>> =>
        LET em == EmittedMatches
        IN  /\ Len(windows) = Len(em)
            /\ text_entries =
                 Flatten([k \in 1..Len(em) |->
                            ExpectedEntries(em[k], run.before_lines, run.after_lines)])
            /\ \A k \in 1..Len(windows) :
                 LET ids == [j \in 1..Len(WindowCues(windows[k])) |->
                                WindowCues(windows[k])[j].id]
                     nb == Min(run.before_lines, Cardinality(SmallerCues(em[k])))
                     na == Min(run.after_lines, Cardinality(LargerCues(em[k])))
                 IN  /\ Len(ids) = nb + 1 + na
                     /\ Len(ids) <= run.before_lines + 1 + run.after_lines
                     /\ ids[nb + 1] = em[k].id
                     /\ \A j \in 1..Len(ids) :
                          subtitles[ids[j]].media_id = em[k].media_id
                     /\ \A j \in 1..(Len(ids) - 1) :
                          /\ ids[j] < ids[j + 1]
                          /\ ~\E i \in 1..Len(subtitles) :
                                /\ subtitles[i].media_id = em[k].media_id
                                /\ ids[j] < i /\ i < ids[j + 1]

\* A search with a window cut short at the start of its MediaRecord and a
\* window that holds all the cues asked for, in a store of several records.
C1_Witness ==
    /\ QueryDone
    /\ Len(media_files) >= 2
    /\ run.before_lines = 2 /\ run.after_lines = 1
    /\ \E k \in 1..Len(windows) :
         /\ Len(windows[k].before_subs) = 1
         /\ Len(windows[k].after_subs) = 1
         /\ windows[k].row.media_id = 2
    /\ \E k \in 1..Len(windows) : Len(windows[k].after_subs) = 0

\* Rendered timestamp back to milliseconds.
TsToMs(ts) == ts.hours * 3600000 + ts.minutes * 60000 + ts.millis

\* C2: the caption artifact has start times that never decrease from one
\* emitted cue to the next, and every cue's rendered duration is its
\* original end minus start (cues with end < start included).
C2_VttMonotone ==
    QueryDone /\ vtt_file.written =>
        /\ Len(vtt_file.lines) = Len(text_entries)
        /\ \A k \in 1..Len(vtt_file.lines) :
             TsToMs(vtt_file.lines[k].end) - TsToMs(vtt_file.lines[k].start)
               = text_entries[k].end_time - text_entries[k].start_time
        /\ \A k \in 1..(Len(vtt_file.lines) - 1) :
             TsToMs(vtt_file.lines[k].start) <= TsToMs(vtt_file.lines[k + 1].start)

\* The window that holds the k-th transcript entry.
RECURSIVE WindowIndex(_, _)
WindowIndex(k, w) ==
    IF k <= Len(WindowCues(windows[w])) THEN w
    ELSE WindowIndex(k - Len(WindowCues(windows[w])), w + 1)

\* C3: the 0.5 s gap is applied per window, not per cue: the first cue
\* starts at 0.50 and consecutive cues of a window are 0.5 s apart.
C3_GapPerWindow ==
    QueryDone /\ vtt_file.written /\ vtt_file.lines # <<>> =>
        /\ TsToMs(vtt_file.lines[1].start) = 500
        /\ \A k \in 1..(Len(vtt_file.lines) - 1) :
             WindowIndex(k, 1) = WindowIndex(k + 1, 1) =>
                TsToMs(vtt_file.lines[k + 1].start) - TsToMs(vtt_file.lines[k].end) = 500

\* C4: when there is a match the playlist is the header line followed by
\* exactly one line per match whose path has no comma, in match order (path
\* ascending, then start time ascending); no line has a comma in its path.
C4_PlaylistNoComma ==
    QueryDone /\ results # <<>> =>
        LET em == EmittedMatches
        IN  /\ edl_file.written
            /\ Len(edl_file.lines) = 1 + Len(em)
            /\ edl_file.lines[1] = [kind |-> "header", file_path |-> <<>>,
                                    start_time |-> 0, length |-> 0]
            /\ \A k \in 1..Len(em) :
                 /\ edl_file.lines[k + 1].kind = "clip"
                 /\ edl_file.lines[k + 1].file_path = em[k].file_path
            /\ \A k \in 2..Len(edl_file.lines) :
                 \A j \in 1..Len(edl_file.lines[k].file_path) :
                    edl_file.lines[k].file_path[j] # 44
            /\ \A i, j \in 1..Len(results) :
                 i < j => \/ PathLess(results[i].file_path, results[j].file_path)
                          \/ /\ results[i].file_path = results[j].file_path
                             /\ results[i].start_time <= results[j].start_time

\* A search that matched in a path with a comma and in two paths without.
C4_Witness ==
    /\ QueryDone
    /\ \E k \in 1..Len(results) : HasComma(results[k].file_path)
    /\ Len(edl_file.lines) >= 3
    /\ edl_file.lines[2].file_path # edl_file.lines[Len(edl_file.lines)].file_path

\* C5: the clip of a match starts at the start of the first cue of its
\* window and its length is the end of the last cue of the window minus that
\* start, not clamped.  With cues (0-2,a),(2-4,b),(4-6,c), query b gives
\* 0.00/6.00 with before = after = 1 and 2.00/2.00 with before = after = 0.
C5_ClipRange ==
    QueryDone /\ results # <<>> =>
        /\ Len(edl_entries) = Len(windows)
        /\ Len(edl_file.lines) = 1 + Len(windows)
        /\ \A k \in 1..Len(windows) :
             LET cs == WindowCues(windows[k])
                 first == subtitles[cs[1].id]
                 last == subtitles[cs[Len(cs)].id]
             IN  /\ edl_entries[k].start_time = first.start_time
                 /\ edl_entries[k].length = last.end_time - first.start_time
                 /\ edl_file.lines[k + 1].start_time * 10 = first.start_time
                 /\ edl_file.lines[k + 1].length * 10
                      = last.end_time - first.start_time
                 /\ (windows[k].row.file_path = <<97>> /\ run.query_str = <<98>>) =>
                      /\ (run.before_lines = 1 /\ run.after_lines = 1) =>
                           /\ edl_file.lines[k + 1].start_time = 0
                           /\ edl_file.lines[k + 1].length = 600
                      /\ (run.before_lines = 0 /\ run.after_lines = 0) =>
                           /\ edl_file.lines[k + 1].start_time = 200
                           /\ edl_file.lines[k + 1].length = 200

\* The scenario query b, before = after = 1, and a clip of negative length.
C5_Witness ==
    /\ QueryDone
    /\ run.query_str = <<98>> /\ run.before_lines = 1 /\ run.after_lines = 1
    /\ \E k \in 1..Len(windows) :
         /\ windows[k].row.file_path = <<97>>
         /\ Len(WindowCues(windows[k])) = 3
    /\ \E k \in 2..Len(edl_file.lines) : edl_file.lines[k].length < 0

C7_RescanInsertsNothing ==
    (run.op = "load" /\ ~run.reload /\ run.clean) =>
        /\ processed_count = 0
        /\ media_files = begin.media_files
        /\ subtitles = begin.subtitles
        /\ pc # "crashed"

\* An incremental scan of an unchanged directory of two indexed files ended.
C7_Witness ==
    /\ LoadDone
    /\ ~run.reload /\ run.clean
    /\ Len(media_files) >= 2
    /\ subtitles # <<>>

\* C8: a subtitle file that cannot be decoded does not abort the scan of an
\* existing store: no scan ends by an exception with pairs left unprocessed.
C8_DecodeFailureDoesNotAbort ==
    ~(run.op = "load" /\ tables /\ pc = "crashed")

\* C9: when an incremental scan has ended, every media file of the directory
\* is recorded with its current modification time (a modified file was
\* indexed again).
C9_ModifiedReindexed ==
    (LoadDone /\ ~run.reload) =>
        \A p \in Paths : fs[p].present =>
            \E i \in 1..Len(media_files) :
                /\ media_files[i].file_path = p
                /\ media_files[i].modified_time >= fs[p].mtime

\* C10: no operation returns with a store connection still open.
C10_ConnectionsClosed ==
    pc = "done" => open_conns = 0

====
